---- MODULE Spec2Model ----
(***************************************************************************)
(* Model of src/app.py: a Dash application holding two process-wide        *)
(* globals, uploaded_data (the loaded DataFrame) and model (the sklearn    *)
(* Pipeline), and six callbacks that read and replace them.                *)
(*                                                                         *)
(* Spec     : each callback runs to completion (one request at a time).    *)
(* SpecConc : one train, one predict and one upload request interleave at  *)
(*            the granularity of their reads and writes of the globals.    *)
(***************************************************************************)
EXTENDS Integers, Sequences, FiniteSets, TLC

\* ------------------------------------------------------------------ bounds
\* longest feature selection a request carries
MaxFeatures == 2
\* largest number of comma-separated tokens of a prediction text
MaxTokens == 2
\* Pipeline objects created in one concurrent run (object identities)
MaxTrains == 2

\* ------------------------------------------------- values of the Python code
\* Python's None, for a global, a dropdown value or a radio value
None == "None"

\* A parsed CSV: its columns in file order, the dtype pandas infers for each,
\* the categories of its text columns, its row count, and where the missing
\* values of a column fall with respect to the fixed 80/20 split.
Catalog ==
  [ A |-> [cols |-> <<"size", "color", "price">>,
           dtype |-> [size |-> "number", color |-> "object", price |-> "number"],
           cats |-> {"red", "blue"}, mode |-> "red", nrows |-> 5,
           nanTrain |-> {}, nanTest |-> {}],
    B |-> [cols |-> <<"size", "color", "flag", "price">>,
           dtype |-> [size |-> "number", color |-> "object", flag |-> "bool",
                      price |-> "number"],
           cats |-> {"blue", "green"}, mode |-> "green", nrows |-> 5,
           nanTrain |-> {}, nanTest |-> {"price"}],
    C |-> [cols |-> <<"color", "price">>,
           dtype |-> [color |-> "object", price |-> "number"],
           cats |-> {"red", "blue"}, mode |-> "blue", nrows |-> 5,
           nanTrain |-> {"price"}, nanTest |-> {}],
    D |-> [cols |-> <<"size", "price">>,
           dtype |-> [size |-> "number", price |-> "number"],
           cats |-> {}, mode |-> None, nrows |-> 1,
           nanTrain |-> {}, nanTest |-> {}] ]

DataIds == DOMAIN Catalog

\* What the page can hold in its State values.  The components keep a chosen
\* value when a later upload replaces the table, so a callback can receive a
\* name offered for an earlier table; flag is never offered (see get_options).
TargetChoices == {"size", "price"}
FeatureChoices == {"size", "color"}
RadioChoices == {"color"}

\* upload-data contents: nothing, a payload that fails to decode or parse,
\* or a payload that parses to one of the tables
Uploads == {None, "bad"} \cup DataIds

\* the comma-separated fields a user types: a number, a text that is a
\* category of color in tables A and C but not in B, and a float literal
\* that Python parses to NaN
Tokens == {"10", "red", "nan"}

Range(s) == {s[i] : i \in DOMAIN s}

RECURSIVE SelectSeq2(_, _, _)
\* the elements of s, in order, whose dtype in table d is in kinds
SelectSeq2(s, d, kinds) ==
  IF s = <<>> THEN <<>>
  ELSE IF Catalog[d].dtype[Head(s)] \in kinds
       THEN <<Head(s)>> \o SelectSeq2(Tail(s), d, kinds)
       ELSE SelectSeq2(Tail(s), d, kinds)

\* DataFrame.select_dtypes(include=kinds).columns
select_dtypes(d, kinds) == SelectSeq2(Catalog[d].cols, d, kinds)

Columns(d) == Range(Catalog[d].cols)

\* ordered selections without repetition, as a Checklist reports them
Selections(S) ==
  {s \in UNION {[1..n -> S] : n \in 0..MaxFeatures} :
     \A i, j \in DOMAIN s : i # j => s[i] # s[j]}

\* predict-input values; <<>> stands for an empty or absent text
Texts == UNION {[1..n -> Tokens] : n \in 0..MaxTokens}

\* ---------------------------------------------------- the Model Artifact
\* the global before any train_model call assigned it
NoModel == [state |-> "none", features |-> <<>>, X |-> None, y |-> None]

\* Pipeline(steps=[preprocessor, regressor]) as constructed at line 230,
\* to be fitted on X sliced from table X and y sliced from table y
NewPipeline(features, X, y) ==
  [state |-> "constructed", features |-> features, X |-> X, y |-> y]

\* the same object once Pipeline.fit has fitted the preprocessor in place
\* (feature_names_in_ exists) and not yet, or never, the regressor
Preprocessed(m) == [m EXCEPT !.state = "preprocessed"]

\* the same object after model.fit returned
Fitted(m) == [m EXCEPT !.state = "fitted"]

\* ------------------------------------------------- train_model, its stages
\* The first statement of the try block that raises, or "none":
\*   slice : uploaded_data[selected_features] / uploaded_data[target] KeyError
\*   split : train_test_split leaves an empty train set
\*   fit   : XGBRegressor.fit rejects a label holding NaN, after the
\*           preprocessor of the installed pipeline was fitted
\*   score : r2_score rejects a y_test holding NaN
\* X is sliced from table dX and y from table dY (the global is read twice).
FailingStage(dX, dY, target, features) ==
  IF ~(Range(features) \subseteq Columns(dX)) \/ target \notin Columns(dY)
    THEN "slice"
  ELSE IF \/ Catalog[dX].nrows # Catalog[dY].nrows
          \/ Catalog[dX].nrows - (Catalog[dX].nrows + 4) \div 5 = 0
    THEN "split"
  ELSE IF target \in Catalog[dY].nanTrain THEN "fit"
  ELSE IF target \in Catalog[dY].nanTest THEN "score"
  ELSE "none"

\* the value of the global model when train_model returns
ModelAfterTrain(old, d, target, features) ==
  LET stage == FailingStage(d, d, target, features)
      fresh == NewPipeline(features, d, d)
  IN  CASE stage \in {"slice", "split"} -> old
        [] stage = "fit" -> Preprocessed(fresh)
        [] OTHER -> Fitted(fresh)

\* --------------------------------------------- make_prediction, its steps
\* float(value) with the ValueError fallback to the literal string
ParseToken(tok) ==
  CASE tok = "10" -> [t |-> "float", v |-> "10.0"]
    [] tok = "nan" -> [t |-> "float", v |-> "nan"]
    [] OTHER -> [t |-> "str", v |-> tok]

processed_data(text) == [i \in DOMAIN text |-> ParseToken(text[i])]

\* pd.DataFrame([processed_data], columns=selected_features): one row, as
\* a set of columns; a column label is name, or name_suffix for a dummy
DataFrame(processed, features) ==
  {[name |-> features[i], suffix |-> "", val |-> processed[i]] :
     i \in DOMAIN features}

\* pd.get_dummies: every text column f holding s becomes the column f_s
get_dummies(df) ==
  {IF c.val.t = "str"
     THEN [name |-> c.name, suffix |-> c.val.v, val |-> [t |-> "bool", v |-> "True"]]
     ELSE c : c \in df}

\* the labels of a frame that are plain names
Labels(df) == {c.name : c \in {x \in df : x.suffix = ""}}

\* lines 275-278: add the missing expected columns as 0, then select the
\* expected columns in their order
Reconcile(df, names_in) ==
  [i \in DOMAIN names_in |->
     IF names_in[i] \in Labels(df)
       THEN (CHOOSE c \in df : c.suffix = "" /\ c.name = names_in[i]).val
       ELSE [t |-> "int", v |-> "0"]]

\* TransformCell with an unknown category treated as a missing value
TransformCellUnknownAsMissing(X, f, cell) ==
  CASE Catalog[X].dtype[f] = "number" ->
         [kind |-> "num", v |-> IF cell.v = "nan" THEN "mean" ELSE cell.v, hot |-> {}]
    [] Catalog[X].dtype[f] = "object" ->
         [kind |-> "onehot", v |-> "",
          hot |-> IF cell.t = "str" /\ cell.v \in Catalog[X].cats
                    THEN {cell.v} ELSE {Catalog[X].mode}]
    [] OTHER -> [kind |-> "dropped", v |-> "", hot |-> {}]

\* SimpleImputer + StandardScaler / SimpleImputer + OneHotEncoder of the
\* fitted ColumnTransformer on one cell of feature f, as fitted on table X
TransformCell(X, f, cell) ==
  CASE Catalog[X].dtype[f] = "number" ->
         [kind |-> "num", v |-> IF cell.v = "nan" THEN "mean" ELSE cell.v, hot |-> {}]
    [] Catalog[X].dtype[f] = "object" ->
         [kind |-> "onehot", v |-> "",
          hot |-> IF cell.v = "nan" THEN {Catalog[X].mode}
                  ELSE IF cell.t = "str" /\ cell.v \in Catalog[X].cats
                       THEN {cell.v} ELSE {}]
    [] OTHER -> [kind |-> "dropped", v |-> "", hot |-> {}]

\* the matrix row the regressor receives from the preprocessor
EncodedRow(m, row) ==
  [i \in DOMAIN row |-> TransformCell(m.X, m.features[i], row[i])]

\* PredictResult with the model looked up before the count test
PredictResultModelFirst(m, text, features) ==
  LET processed == processed_data(text)
      input_df == get_dummies(DataFrame(processed, features))
      row == Reconcile(input_df, m.features)
  IN  IF m.state # "fitted"
        THEN [kind |-> "error", expected |-> 0, got |-> 0, row |-> <<>>]
      ELSE IF Len(processed) # Len(features)
        THEN [kind |-> "mismatch", expected |-> Len(features),
              got |-> Len(processed), row |-> <<>>]
      ELSE [kind |-> "prediction", expected |-> 0, got |-> 0,
            row |-> EncodedRow(m, row)]

\* the prediction text make_prediction returns once past its guards
PredictResult(m, text, features) ==
  LET processed == processed_data(text)
      input_df == get_dummies(DataFrame(processed, features))
      row == Reconcile(input_df, m.features)
  IN  IF Len(processed) # Len(features)
        THEN [kind |-> "mismatch", expected |-> Len(features),
              got |-> Len(processed), row |-> <<>>]
      ELSE IF m.state # "fitted"
        \* None or a pipeline never fitted: model.feature_names_in_ raises
        \* AttributeError; regressor not fitted: model.predict raises
        \* NotFittedError; both are caught at line 282
        THEN [kind |-> "error", expected |-> 0, got |-> 0, row |-> <<>>]
      ELSE [kind |-> "prediction", expected |-> 0, got |-> 0,
            row |-> EncodedRow(m, row)]

\* ------------------------------------------------------- upload, report
\* DataAfterUpload with the global cleared before the parse is attempted
DataAfterUploadCleared(old, contents) ==
  IF contents \in DataIds THEN contents
  ELSE IF contents = None THEN old ELSE None

\* the value of the global uploaded_data when handle_upload returns
DataAfterUpload(old, contents) ==
  IF contents \in DataIds THEN contents ELSE old

\* update_barcharts past its first guard: does a statement raise KeyError?
ReportRaises(d, target, categorical_var) ==
  \/ /\ categorical_var # None
     /\ (categorical_var \notin Columns(d) \/ target \notin Columns(d))
  \/ /\ select_dtypes(d, {"number"}) # <<>>
     /\ Catalog[d].nrows > 0
     /\ target \notin Range(select_dtypes(d, {"number"}))

\* ------------------------------------------------------------------ state
VARIABLES
  uploaded_data,    \* the global of line 20: None or a table of the Catalog
  model,            \* the global of line 21
  last,             \* the last callback run: its name, arguments and return
  trained,          \* has a train_model call returned its success message
  created,          \* SpecConc: Pipeline objects constructed so far
  modelId,          \* SpecConc: which of them the global model refers to (0: None)
  trainer,          \* SpecConc: the train_model request in progress
  predictor         \* SpecConc: the make_prediction request in progress

seqVars == <<last, trained>>
concVars == <<created, modelId, trainer, predictor>>
vars == <<uploaded_data, model, last, trained, created, modelId, trainer, predictor>>

TrainerIdle == [pc |-> "idle", target |-> None, features |-> <<>>, X |-> None, y |-> None]
PredictorIdle == [pc |-> "idle", text |-> <<>>, features |-> <<>>, reads |-> <<>>,
                  kind |-> ""]

Return(op, kind) ==
  [op |-> op, kind |-> kind, list |-> <<>>, expected |-> 0, got |-> 0,
   text |-> <<>>, features |-> <<>>, row |-> <<>>, stage |-> "",
   contents |-> None]

Init ==
  /\ uploaded_data = None
  /\ model = NoModel
  /\ last = Return("start", "ok")
  /\ trained = FALSE
  /\ created = 0
  /\ modelId = 0
  /\ trainer = TrainerIdle
  /\ predictor = PredictorIdle

\* lines 107-117
handle_upload(contents) ==
  /\ uploaded_data' = DataAfterUpload(uploaded_data, contents)
  /\ last' = [Return("handle_upload",
                     CASE contents = None -> "nofile"
                       [] contents \in DataIds -> "ok"
                       [] OTHER -> "error") EXCEPT !.contents = contents]
  /\ UNCHANGED <<model, trained>>
  /\ UNCHANGED concVars

\* lines 126-130
update_target_dropdown ==
  LET options == IF uploaded_data # None
                   THEN select_dtypes(uploaded_data, {"number"}) ELSE <<>>
  IN  /\ last' = [Return("update_target_dropdown", "ok") EXCEPT !.list = options]
      /\ UNCHANGED <<uploaded_data, model, trained>>
      /\ UNCHANGED concVars

\* lines 172-183
get_options ==
  LET options == IF uploaded_data # None
                   THEN select_dtypes(uploaded_data, {"number"})
                        \o select_dtypes(uploaded_data, {"object", "category"})
                   ELSE <<>>
  IN  /\ last' = [Return("get_options", "ok") EXCEPT !.list = options]
      /\ UNCHANGED <<uploaded_data, model, trained>>
      /\ UNCHANGED concVars

\* lines 141-162
update_barcharts(target, categorical_var) ==
  LET cat_cols == IF uploaded_data # None
                    THEN select_dtypes(uploaded_data, {"object"}) ELSE <<>>
      kind == IF uploaded_data = None \/ target = None THEN "empty"
              ELSE IF ReportRaises(uploaded_data, target, categorical_var)
                THEN "raise" ELSE "ok"
  IN  /\ last' = [Return("update_barcharts", kind) EXCEPT
                    !.list = IF kind = "ok" THEN cat_cols ELSE <<>>]
      /\ UNCHANGED <<uploaded_data, model, trained>>
      /\ UNCHANGED concVars

\* lines 193-243; clicked = FALSE is the call with n_clicks None
train_model(clicked, target, selected_features) ==
  LET guard == CASE ~clicked -> "idle"
                 [] uploaded_data = None -> "nodata"
                 [] target = None -> "notarget"
                 [] selected_features = <<>> -> "nofeatures"
                 [] OTHER -> "try"
      stage == FailingStage(uploaded_data, uploaded_data, target, selected_features)
  IN  /\ model' = IF guard = "try"
                    THEN ModelAfterTrain(model, uploaded_data, target, selected_features)
                    ELSE model
      /\ last' = IF guard # "try" THEN Return("train_model", guard)
                 ELSE [Return("train_model", IF stage = "none" THEN "ok" ELSE "error")
                         EXCEPT !.stage = stage]
      /\ trained' = (trained \/ (guard = "try" /\ stage = "none"))
      /\ UNCHANGED uploaded_data
      /\ UNCHANGED concVars

\* lines 253-283; clicked = FALSE is the call with n_clicks None
make_prediction(clicked, input_values, selected_features) ==
  LET r == PredictResult(model, input_values, selected_features)
  IN  /\ last' = IF ~clicked \/ input_values = <<>> \/ selected_features = <<>>
                   THEN Return("make_prediction", "idle")
                   ELSE [Return("make_prediction", r.kind) EXCEPT
                           !.text = input_values, !.features = selected_features,
                           !.expected = r.expected, !.got = r.got, !.row = r.row]
      /\ UNCHANGED <<uploaded_data, model, trained>>
      /\ UNCHANGED concVars

\* A page load fires train_model and make_prediction with n_clicks None and
\* no State values; a click sends the State values the page holds.
Next ==
  \/ \E contents \in Uploads : handle_upload(contents)
  \/ update_target_dropdown
  \/ get_options
  \/ \E target \in TargetChoices \cup {None},
        categorical_var \in RadioChoices \cup {None} :
        update_barcharts(target, categorical_var)
  \/ train_model(FALSE, None, <<>>)
  \/ \E target \in TargetChoices \cup {None},
        selected_features \in Selections(FeatureChoices) :
        train_model(TRUE, target, selected_features)
  \/ make_prediction(FALSE, <<>>, <<>>)
  \/ \E input_values \in Texts, selected_features \in Selections(FeatureChoices) :
        make_prediction(TRUE, input_values, selected_features)

Spec == Init /\ [][Next]_vars

\* ------------------------------------------------ interleaved requests
\* The server dispatches requests on threads; the two globals are read and
\* written without a lock.  One request of each kind is in flight, and each
\* step below is one read or write of a global with the local work up to it.

\* the requests the concurrent run draws its arguments from
ConcFeatures == {<<"size">>, <<"size", "color">>}
ConcPredicts == {[text |-> <<"10">>, features |-> <<"size">>],
                 [text |-> <<"10", "red">>, features |-> <<"size", "color">>]}

\* what a read of the global model yields: the object and its state then
Snapshot == [id |-> modelId, state |-> model.state, features |-> model.features,
             X |-> model.X, y |-> model.y]

\* line 113: the assignment of the parsed table
c_upload(contents) ==
  /\ contents \in DataIds
  /\ uploaded_data' = contents
  /\ UNCHANGED <<model, seqVars, concVars>>

\* lines 196-206: the guards; uploaded_data is read for the None test
c_train_begin(target, selected_features) ==
  /\ trainer.pc = "idle"
  /\ created < MaxTrains
  /\ uploaded_data # None
  /\ trainer' = [TrainerIdle EXCEPT !.pc = "209", !.target = target,
                                    !.features = selected_features]
  /\ UNCHANGED <<uploaded_data, model, seqVars, created, modelId, predictor>>

\* line 209: X = uploaded_data[selected_features]
c_train_209 ==
  /\ trainer.pc = "209"
  /\ trainer' = IF Range(trainer.features) \subseteq Columns(uploaded_data)
                  THEN [trainer EXCEPT !.pc = "210", !.X = uploaded_data]
                  ELSE TrainerIdle
  /\ UNCHANGED <<uploaded_data, model, seqVars, created, modelId, predictor>>

\* line 210: y = uploaded_data[target]
c_train_210 ==
  /\ trainer.pc = "210"
  /\ trainer' = IF trainer.target \in Columns(uploaded_data)
                  THEN [trainer EXCEPT !.pc = "230", !.y = uploaded_data]
                  ELSE TrainerIdle
  /\ UNCHANGED <<uploaded_data, model, seqVars, created, modelId, predictor>>

\* lines 213-234: the split, then the assignment of the new Pipeline
c_train_230 ==
  /\ trainer.pc = "230"
  /\ IF FailingStage(trainer.X, trainer.y, trainer.target, trainer.features) = "split"
       THEN /\ trainer' = TrainerIdle
            /\ UNCHANGED <<model, created, modelId>>
       ELSE /\ trainer' = [trainer EXCEPT !.pc = "236"]
            /\ model' = NewPipeline(trainer.features, trainer.X, trainer.y)
            /\ created' = created + 1
            /\ modelId' = created + 1
  /\ UNCHANGED <<uploaded_data, seqVars, predictor>>

\* line 236, first half: Pipeline.fit fits the preprocessor in place
c_train_fit_preprocessor ==
  /\ trainer.pc = "236"
  /\ model' = Preprocessed(model)
  /\ trainer' = [trainer EXCEPT !.pc = "236r"]
  /\ UNCHANGED <<uploaded_data, seqVars, created, modelId, predictor>>

\* line 236, second half: the regressor is fitted, or rejects the label
c_train_fit_regressor ==
  /\ trainer.pc = "236r"
  /\ IF FailingStage(trainer.X, trainer.y, trainer.target, trainer.features) = "fit"
       THEN trainer' = TrainerIdle /\ UNCHANGED model
       ELSE trainer' = [trainer EXCEPT !.pc = "238"] /\ model' = Fitted(model)
  /\ UNCHANGED <<uploaded_data, seqVars, created, modelId, predictor>>

\* lines 238-243: score and return
c_train_return ==
  /\ trainer.pc = "238"
  /\ trainer' = TrainerIdle
  /\ UNCHANGED <<uploaded_data, model, seqVars, created, modelId, predictor>>

\* lines 256-273: guards, parsing, the count test, the one-row frame
c_predict_begin(req) ==
  /\ predictor.pc = "idle"
  /\ Len(req.text) = Len(req.features)
  /\ predictor' = [PredictorIdle EXCEPT !.pc = "275", !.text = req.text,
                                        !.features = req.features]
  /\ UNCHANGED <<uploaded_data, model, seqVars, created, modelId, trainer>>

\* the frame the request holds after lines 275-277 ran against snapshot s1
FrameAfterFill(text, features, s1) ==
  LET df == get_dummies(DataFrame(processed_data(text), features))
  IN  df \cup {[name |-> f, suffix |-> "", val |-> [t |-> "int", v |-> "0"]] :
                 f \in Range(s1.features) \ Labels(df)}

PredictorDone(kind, s) ==
  [predictor EXCEPT !.pc = "done", !.kind = kind, !.reads = predictor.reads \o <<s>>]

\* lines 275-277: model.feature_names_in_ is read from the global
c_predict_275 ==
  /\ predictor.pc = "275"
  /\ predictor' = IF model.state \in {"none", "constructed"}
                    THEN PredictorDone("error", Snapshot)
                    ELSE [predictor EXCEPT !.pc = "278",
                                           !.reads = predictor.reads \o <<Snapshot>>]
  /\ UNCHANGED <<uploaded_data, model, seqVars, created, modelId, trainer>>

\* line 278: the global is read again for the column selection
c_predict_278 ==
  /\ predictor.pc = "278"
  /\ predictor' =
       IF \/ model.state \in {"none", "constructed"}
          \/ ~(Range(model.features) \subseteq
                 Labels(FrameAfterFill(predictor.text, predictor.features,
                                       predictor.reads[1])))
         THEN PredictorDone("error", Snapshot)
         ELSE [predictor EXCEPT !.pc = "280",
                                !.reads = predictor.reads \o <<Snapshot>>]
  /\ UNCHANGED <<uploaded_data, model, seqVars, created, modelId, trainer>>

\* line 280: the global is read a third time for model.predict
c_predict_280 ==
  /\ predictor.pc = "280"
  /\ predictor' =
       IF \/ model.state # "fitted"
          \/ ~(Range(model.features) \subseteq Range(predictor.reads[2].features))
         THEN PredictorDone("error", Snapshot)
         ELSE PredictorDone("prediction", Snapshot)
  /\ UNCHANGED <<uploaded_data, model, seqVars, created, modelId, trainer>>

\* lines 281-283: the response is sent
c_predict_return ==
  /\ predictor.pc = "done"
  /\ predictor' = PredictorIdle
  /\ UNCHANGED <<uploaded_data, model, seqVars, created, modelId, trainer>>

NextConc ==
  \/ \E contents \in DataIds : c_upload(contents)
  \/ \E target \in TargetChoices, selected_features \in ConcFeatures :
        c_train_begin(target, selected_features)
  \/ c_train_209
  \/ c_train_210
  \/ c_train_230
  \/ c_train_fit_preprocessor
  \/ c_train_fit_regressor
  \/ c_train_return
  \/ \E req \in ConcPredicts : c_predict_begin(req)
  \/ c_predict_275
  \/ c_predict_278
  \/ c_predict_280
  \/ c_predict_return

SpecConc == Init /\ [][NextConc]_vars

\* ------------------------------------------------------------- properties
\* the last callback was a make_prediction call that got past its guards
Predicted == last.op = "make_prediction" /\ last.kind # "idle"

\* feature f was categorical in the table the installed pipeline was fitted on
Categorical(f) == Catalog[model.X].dtype[f] = "object"

\* the pairs (i, j): trained feature i is the feature the request's token j is for
Paired == {ij \in (DOMAIN model.features) \X (DOMAIN last.features) :
             model.features[ij[1]] = last.features[ij[2]]}

\* C1: a train_model call that returns a failure leaves the global model
\* as it was before the call.
C1_TransactionalTrain ==
  [][(last'.op = "train_model" /\ last'.kind # "ok") => model' = model]_vars

\* C2: after a successful train, a token equal to a category observed for a
\* categorical feature reaches the regressor with a non-zero encoding.
C2_SeenCategoryContributes ==
  (Predicted /\ last.kind = "prediction") =>
    \A ij \in Paired :
      (Categorical(model.features[ij[1]])
         /\ last.text[ij[2]] \in Catalog[model.X].cats)
      => last.row[ij[1]].hot # {}

\* C3: a predict call with non-empty text and selection whose token count
\* differs from the feature count returns the mismatch failure carrying both
\* counts and hands nothing to the model, with or without a Model Artifact.
C3_MismatchReported ==
  (Predicted /\ Len(last.text) # Len(last.features)) =>
    /\ last.kind = "mismatch"
    /\ last.expected = Len(last.features)
    /\ last.got = Len(last.text)
    /\ last.row = <<>>

C3_Witness ==
  /\ Predicted /\ Len(last.text) # Len(last.features)
  /\ last.kind = "mismatch"
  /\ model.state # "fitted"

\* C4: an upload that fails to decode or parse returns an error and leaves
\* the stored table as it was; a parsed upload replaces it wholesale.
C4_ReplaceOrReject ==
  [][last'.op = "handle_upload" =>
       IF last'.contents \in DataIds
         THEN last'.kind = "ok" /\ uploaded_data' = last'.contents
         ELSE last'.kind # "ok" /\ uploaded_data' = uploaded_data]_vars

C4_Witness ==
  /\ last.op = "handle_upload" /\ last.kind = "error"
  /\ uploaded_data \in DataIds

\* C5: no boundary operation propagates an exception to its caller.
C5_NoExceptionPropagates == last.kind # "raise"

\* C7: the feature options list every column of the loaded table exactly
\* once, and are empty when nothing is loaded.
C7_AllColumnsOffered ==
  last.op = "get_options" =>
    IF uploaded_data = None THEN last.list = <<>>
    ELSE /\ Range(last.list) = Columns(uploaded_data)
         /\ Len(last.list) = Cardinality(Columns(uploaded_data))

\* does the token parse to the float NaN, pandas' missing value
IsMissing(tok) == ParseToken(tok).v = "nan"

\* the pairs of Paired whose token is a value never observed for a
\* categorical trained feature
Unseen == {ij \in Paired :
             /\ Categorical(model.features[ij[1]])
             /\ last.text[ij[2]] \notin Catalog[model.X].cats}

\* C8 as stated: every token never observed at training time for a
\* categorical feature yields a prediction with that feature all-zero.
C8_AnyUnseenAllZero ==
  (Predicted /\ model.state = "fitted" /\ Len(last.text) = Len(last.features)) =>
    \A ij \in Unseen : last.kind = "prediction" /\ last.row[ij[1]].hot = {}

\* C8, amended: a token never observed at training time for a categorical
\* feature, other than one that parses to the missing value NaN, yields a
\* prediction in which that feature's encoding is all-zero.
C8_UnseenValueAllZero ==
  (Predicted /\ model.state = "fitted" /\ Len(last.text) = Len(last.features)) =>
    \A ij \in Unseen :
      ~IsMissing(last.text[ij[2]]) =>
        last.kind = "prediction" /\ last.row[ij[1]].hot = {}

C8_Witness ==
  /\ Predicted /\ last.kind = "prediction"
  /\ \E ij \in Unseen : /\ ParseToken(last.text[ij[2]]).t = "str"
                         /\ last.row[ij[1]].hot = {}

\* C9: predict returns a prediction only if an earlier train call returned
\* success.
C9_PredictionOnlyAfterTrain ==
  (Predicted /\ last.kind = "prediction") => trained

\* C10: a predict call that returns a prediction was given the ordered
\* feature selection the installed pipeline was trained with.
C10_SameSelection ==
  (Predicted /\ last.kind = "prediction") => last.features = model.features

\* C6: a predict request uses one, fully fitted, artifact for all its reads
\* of the global model, and a train request takes X and y from one table.
C6_ConsistentSnapshot ==
  /\ \A i \in DOMAIN predictor.reads :
        /\ predictor.reads[i].state \in {"none", "fitted"}
        /\ predictor.reads[i].id = predictor.reads[1].id
  /\ model.X = model.y

====
